---- MODULE Spec2Model ----
(***************************************************************************)
(* Hyperliquid staking CLI with a Ledger hardware signer.                  *)
(*                                                                         *)
(*   src/hyperliquid/utils/ledger_signer.py   LedgerSigner                 *)
(*   src/hyperliquid/cli.py                   main and its helpers         *)
(*                                                                         *)
(* Hashes and signatures are symbolic terms: a struct hash is the record   *)
(* of everything keccak is applied to, so two hashes are equal exactly     *)
(* when their preimages are (keccak taken as collision free).              *)
(***************************************************************************)
EXTENDS Integers, Sequences, FiniteSets, TLC

VARIABLES
    signerState,    \* "none" | "ready" (LedgerSigner constructed) | "failed" (__init__ raised)
    account_path,   \* LedgerSigner._account_path
    account,        \* LedgerSigner._account.address, or NoAccount
    openedPath,     \* device side: the path get_account_by_path was asked for
    pc,             \* position inside sign_typed_data
    typed_data,     \* the argument of the running sign_typed_data call
    signing_types,  \* local signing_types of sign_typed_data
    domain_hash,    \* local domain_hash
    message_hash,   \* local message_hash
    requests,       \* device side: sign_typed_data_draft requests of the running call
    signed,         \* what sign_typed_data_draft returned, with the key and digest it signed
    outcome,        \* what the call returned or raised
    surfaced,       \* per transport report, the error the caller last saw for it
    cliPc,          \* position inside cli.main ("off": main is not running)
    args,           \* argparse result
    json_params,    \* main's json_params
    stdout,         \* what was printed to stdout, in order
    stderr,         \* what was printed to stderr, in order
    exitCode,       \* process exit status, NotExited while running
    invoked,        \* exchange actions called, with their arguments
    prompt,         \* how input() of confirm_action ended
    actionRaised,   \* the exchange action raised
    normIn,         \* normalisation: the fields the user supplies, and how
    normFlat,       \* normalisation: result for the flat shape
    normNested      \* normalisation: result for the nested API shape

signerVars == <<signerState, account_path, account, openedPath, pc, typed_data,
                signing_types, domain_hash, message_hash, requests, signed,
                outcome, surfaced>>

cliVars == <<cliPc, args, json_params, stdout, stderr, exitCode, invoked, prompt,
             actionRaised>>

normVars == <<normIn, normFlat, normNested>>

vars == <<signerVars, cliVars, normVars>>

(***************************************************************************)
(* Bounds                                                                  *)
(***************************************************************************)
MaxAccountIndex == 1
MaxScalar == 1

(***************************************************************************)
(* Values of a typed-data payload                                          *)
(***************************************************************************)
IntV(i) == [tag |-> "int", n |-> i, s |-> ""]
StrV(t) == [tag |-> "str", n |-> 0, s |-> t]
StructV(f) == [tag |-> "struct", n |-> 0, s |-> "", f |-> f]
BoolV(b) == [tag |-> "bool", n |-> IF b THEN 1 ELSE 0, s |-> ""]
ListV == [tag |-> "list", n |-> 0, s |-> ""]
NoneV == [tag |-> "none", n |-> 0, s |-> ""]

Field(n, t) == [name |-> n, type |-> t]

\* dict.get(key): None when the key is absent
Get(data, key) == IF key \in DOMAIN data THEN data[key] ELSE NoneV

DomainTypeName == "EIP712Domain"

AgentFlat == <<Field("source", "string"), Field("nonce", "uint256")>>
AgentNested == <<Field("source", "string"), Field("meta", "Meta")>>
MetaSchema == <<Field("nonce", "uint256")>>
DomainSchema == <<Field("name", "string"), Field("chainId", "uint256")>>

SchemasOf(k) ==
    CASE k = "Agent" -> {AgentFlat, AgentNested}
      [] k = "Meta" -> {MetaSchema}
      [] OTHER -> {DomainSchema}

TypeNames == {"Agent", "Meta", DomainTypeName}

\* every `types` mapping over the three names, the domain entry present or not
TypesUniverse ==
    UNION {{t \in [S -> {AgentFlat, AgentNested, MetaSchema, DomainSchema}] :
                \A k \in S : t[k] \in SchemasOf(k)} : S \in SUBSET TypeNames}

PrimaryTypes == {"Agent", "Meta"}

MsgAgentFlat == [source |-> StrV("a"), nonce |-> IntV(1)]
MsgAgentNested == [source |-> StrV("a"), meta |-> StructV([nonce |-> IntV(1)])]
MsgMeta == [nonce |-> IntV(1)]
MsgMismatch == [source |-> StrV("a"), nonce |-> StrV("x")]

Messages == {MsgAgentFlat, MsgAgentNested, MsgMeta, MsgMismatch}

Domains == {[name |-> StrV("Hyperliquid"), chainId |-> IntV(1337)],
            [name |-> StrV("Hyperliquid"), chainId |-> IntV(42161)]}

Payloads == [domain : Domains, types : TypesUniverse,
             primaryType : PrimaryTypes, message : Messages]

NoPayload == [domain |-> <<>>, types |-> <<>>, primaryType |-> "", message |-> <<>>]

(***************************************************************************)
(* eth_account.messages.encode_typed_data(domain_data, message_types,      *)
(* message_data), the three-argument form called by sign_typed_data        *)
(***************************************************************************)
LeafTypes == {"string", "uint256"}

NoHash == [t |-> "", enc |-> <<>>, vals |-> <<>>]
ZeroWord == [tag |-> "zero", n |-> 0, s |-> ""]

\* custom types referenced by the fields of the types in S
Refs(S, types) ==
    S \cup (UNION {{types[k][i].type : i \in DOMAIN types[k]} :
                     k \in S \cap DOMAIN types} \ LeafTypes)

RECURSIVE find_type_dependencies(_, _)
find_type_dependencies(S, types) ==
    LET n == Refs(S, types) IN
    IF n = S \/ ~(n \subseteq DOMAIN types) THEN n
    ELSE find_type_dependencies(n, types)

\* the only type no other type refers to; more or fewer than one is an error
get_primary_type(types) ==
    LET custom == DOMAIN types
        deps == {t \in custom : \E k \in custom \ {t} :
                    \E i \in DOMAIN types[k] : types[k][i].type = t}
        cands == custom \ deps
    IN IF Cardinality(cands) = 1
       THEN [ok |-> TRUE, type |-> CHOOSE t \in cands : TRUE]
       ELSE [ok |-> FALSE, type |-> ""]

\* encodeType: the primary schema followed by its dependencies by name
encode_type(type, types) ==
    LET deps == find_type_dependencies({type}, types) \ {type}
    IN [name |-> type, fields |-> types[type], deps |-> [d \in deps |-> types[d]]]

RECURSIVE encode_data(_, _, _)
encode_field(types, ftype, value) ==
    IF ftype \in DOMAIN types
    THEN IF value.tag = "none" THEN [ok |-> TRUE, e |-> ZeroWord]
         ELSE IF value.tag = "struct"
              THEN LET r == encode_data(ftype, types, value.f)
                   IN [ok |-> r.ok, e |-> r.h]
              ELSE [ok |-> FALSE, e |-> ZeroWord]
    ELSE IF ftype = "string" /\ value.tag = "none"
         THEN [ok |-> TRUE, e |-> [tag |-> "keccak", n |-> 0, s |-> ""]]
    ELSE IF value.tag = "none" THEN [ok |-> FALSE, e |-> ZeroWord]
    ELSE IF ftype = "string"
         THEN IF value.tag \in {"str", "int"}
              THEN [ok |-> TRUE, e |-> [tag |-> "keccak", n |-> value.n, s |-> value.s]]
              ELSE [ok |-> FALSE, e |-> ZeroWord]
    ELSE IF ftype = "uint256"
         \* a string is accepted when int() parses it; "a" and "x" do not parse
         THEN IF value.tag = "int" THEN [ok |-> TRUE, e |-> value]
              ELSE [ok |-> FALSE, e |-> ZeroWord]
    ELSE [ok |-> FALSE, e |-> ZeroWord]

encode_data(type, types, data) ==
    IF ~(find_type_dependencies({type}, types) \subseteq DOMAIN types)
    THEN [ok |-> FALSE, h |-> NoHash]
    ELSE LET schema == types[type]
             enc == [i \in DOMAIN schema |->
                        encode_field(types, schema[i].type, Get(data, schema[i].name))]
         IN IF \A i \in DOMAIN schema : enc[i].ok
            THEN [ok |-> TRUE,
                  h |-> [t |-> type, enc |-> <<encode_type(type, types)>>,
                         vals |-> [i \in DOMAIN schema |-> enc[i].e]]]
            ELSE [ok |-> FALSE, h |-> NoHash]

hash_struct(type, types, data) == encode_data(type, types, data)

DomainFieldOrder == <<Field("name", "string"), Field("version", "string"),
                      Field("chainId", "uint256"),
                      Field("verifyingContract", "address"), Field("salt", "bytes32")>>

\* the domain type is synthesized from the keys the domain data has
hash_domain(domain_data) ==
    LET present(f) == f.name \in DOMAIN domain_data
        domain_types == [k \in {DomainTypeName} |-> SelectSeq(DomainFieldOrder, present)]
    IN IF \A k \in DOMAIN domain_data :
              k \in {DomainFieldOrder[i].name : i \in DOMAIN DomainFieldOrder}
       THEN hash_struct(DomainTypeName, domain_types, domain_data)
       ELSE [ok |-> FALSE, h |-> NoHash]

hash_eip712_message(message_types, message_data) ==
    LET p == get_primary_type(message_types)
    IN IF p.ok THEN hash_struct(p.type, message_types, message_data)
       ELSE [ok |-> FALSE, h |-> NoHash]

\* SignableMessage(header = domain hash, body = message hash), or the error raised
encode_typed_data(domain_data, message_types, message_data) ==
    LET d == hash_domain(domain_data)
        m == hash_eip712_message(message_types, message_data)
    IN IF d.ok /\ m.ok
       THEN [ok |-> TRUE, header |-> d.h, body |-> m.h, err |-> ""]
       ELSE [ok |-> FALSE, header |-> NoHash, body |-> NoHash, err |-> "ValueError"]

(***************************************************************************)
(* cli.get_ledger_account_path and the device                              *)
(***************************************************************************)
get_ledger_account_path(account_index) ==
    [purpose |-> "44'", coin |-> "60'", acct |-> account_index, tail |-> "/0/0"]

DefaultAccountPath == get_ledger_account_path(0)

NoPath == [purpose |-> "", coin |-> "", acct |-> 0, tail |-> ""]

\* the address of the key the device derives for a path
AddressOf(path) == [addr |-> "0x", key |-> path]
NoAccount == [addr |-> "", key |-> NoPath]

\* ledgereth's exceptions, one per transport report
LedgerCancel == "LedgerCancel"
DeviceUnavailableErrors == {"LedgerNotFound", "LedgerLocked", "LedgerAppNotOpened"}
DeviceErrors == {LedgerCancel} \cup DeviceUnavailableErrors

Scalars == 0..MaxScalar
RecoveryIds == {27, 28}

NoSigned == [r |-> 0, s |-> 0, v |-> 0, path |-> NoPath, dh |-> NoHash, mh |-> NoHash]
NoOutcome == [kind |-> "none", err |-> "", r |-> <<>>, s |-> <<>>, v |-> 0]

HexDigit == <<"0", "1", "2", "3", "4", "5", "6", "7", "8", "9",
              "a", "b", "c", "d", "e", "f">>

RECURSIVE HexDigits(_)
HexDigits(n) ==
    IF n < 16 THEN <<HexDigit[n + 1]>>
    ELSE HexDigits(n \div 16) \o <<HexDigit[(n % 16) + 1]>>

\* eth_utils.to_hex of an integer: "0x" and the digits, no padding
to_hex(n) == <<"0x">> \o HexDigits(n)

DigitValue(c) == (CHOOSE i \in DOMAIN HexDigit : HexDigit[i] = c) - 1

RECURSIVE HexValue(_)
HexValue(ds) ==
    IF Len(ds) = 0 THEN 0
    ELSE 16 * HexValue(SubSeq(ds, 1, Len(ds) - 1)) + DigitValue(ds[Len(ds)])

from_hex(h) == HexValue(Tail(h))

(***************************************************************************)
(* LedgerSigner                                                            *)
(***************************************************************************)
SignerInit ==
    /\ signerState = "none"
    /\ account_path = NoPath
    /\ account = NoAccount
    /\ openedPath = NoPath
    /\ pc = "idle"
    /\ typed_data = NoPayload
    /\ signing_types = <<>>
    /\ domain_hash = NoHash
    /\ message_hash = NoHash
    /\ requests = <<>>
    /\ signed = NoSigned
    /\ outcome = NoOutcome
    /\ surfaced = [declined |-> "none", unavailable |-> "none"]

\* __init__: get_account_by_path succeeds, or raises and __init__ raises RuntimeError
LedgerSignerInit(path) ==
    /\ signerState = "none"
    /\ account_path' = path
    /\ openedPath' = path
    /\ \E deviceOk \in BOOLEAN :
          IF deviceOk
          THEN signerState' = "ready" /\ account' = AddressOf(path)
          ELSE signerState' = "failed" /\ account' = NoAccount
    /\ UNCHANGED <<pc, typed_data, signing_types, domain_hash, message_hash,
                   requests, signed, outcome, surfaced>>

\* a caller holding the signer calls sign_typed_data(p)
CallSign(p) ==
    /\ signerState = "ready"
    /\ pc \in {"idle", "returned", "raised"}
    /\ pc' = "called"
    /\ typed_data' = p
    /\ signing_types' = <<>>
    /\ domain_hash' = NoHash
    /\ message_hash' = NoHash
    /\ requests' = <<>>
    /\ signed' = NoSigned
    /\ outcome' = NoOutcome
    /\ UNCHANGED <<signerState, account_path, account, openedPath, surfaced>>

StripNothing(message_types) == message_types

\* {k: v for k, v in message_types.items() if k != "EIP712Domain"}
StripDomainType(message_types) ==
    [k \in DOMAIN message_types \ {DomainTypeName} |-> message_types[k]]

SignStrip ==
    /\ pc = "called"
    /\ signing_types' = StripDomainType(typed_data.types)
    /\ pc' = "stripped"
    /\ UNCHANGED <<signerState, account_path, account, openedPath, typed_data,
                   domain_hash, message_hash, requests, signed, outcome, surfaced>>

SignEncode ==
    /\ pc = "stripped"
    /\ LET signable == encode_typed_data(typed_data.domain, signing_types,
                                         typed_data.message)
       IN IF signable.ok
          THEN /\ domain_hash' = signable.header
               /\ message_hash' = signable.body
               /\ pc' = "hashed"
               /\ outcome' = outcome
          ELSE /\ pc' = "raised"
               /\ outcome' = [NoOutcome EXCEPT !.kind = "error", !.err = signable.err]
               /\ UNCHANGED <<domain_hash, message_hash>>
    /\ UNCHANGED <<signerState, account_path, account, openedPath, typed_data,
                   signing_types, requests, signed, surfaced>>

SenderPathDefault == DefaultAccountPath

\* sender_path=self._account_path
SenderPath == account_path

PropagateWrapped(e) == "RuntimeError"

\* no try around sign_typed_data_draft: its exception leaves sign_typed_data as it is
Propagate(e) == e

Report(e) == IF e = LedgerCancel THEN "declined" ELSE "unavailable"

AfterDeviceErrorRetry == "hashed"

\* the exception ends the call: there is no loop around sign_typed_data_draft
AfterDeviceError == "raised"

SignDevice ==
    /\ pc = "hashed"
    /\ requests' = Append(requests, [domain_hash |-> domain_hash,
                                     message_hash |-> message_hash,
                                     sender_path |-> SenderPath])
    /\ \/ \E r \in Scalars, s \in Scalars, v \in RecoveryIds :
            /\ signed' = [r |-> r, s |-> s, v |-> v, path |-> SenderPath,
                          dh |-> domain_hash, mh |-> message_hash]
            /\ pc' = "signed"
            /\ UNCHANGED <<outcome, surfaced>>
       \/ \E e \in DeviceErrors :
            /\ pc' = AfterDeviceError
            /\ outcome' = [NoOutcome EXCEPT !.kind = "error", !.err = Propagate(e)]
            /\ surfaced' = [surfaced EXCEPT ![Report(e)] = Propagate(e)]
            /\ UNCHANGED signed
    /\ UNCHANGED <<signerState, account_path, account, openedPath, typed_data,
                   signing_types, domain_hash, message_hash>>

SignReturn ==
    /\ pc = "signed"
    /\ outcome' = [kind |-> "sig", err |-> "", r |-> to_hex(signed.r),
                   s |-> to_hex(signed.s), v |-> signed.v]
    /\ pc' = "returned"
    /\ UNCHANGED <<signerState, account_path, account, openedPath, typed_data,
                   signing_types, domain_hash, message_hash, requests, signed,
                   surfaced>>

(***************************************************************************)
(* cli.py: JSON parameters of the validator commands                       *)
(***************************************************************************)
RegisterFields == <<"node_ip", "name", "description", "delegations_disabled",
                    "commission_bps", "signer", "unjailed", "initial_wei">>

ChangeProfileFields == <<"node_ip", "name", "description", "unjailed",
                         "disable_delegations", "commission_bps", "signer">>

ProfileFields == {"node_ip", "name", "description", "delegations_disabled",
                  "commission_bps", "signer"}

Range(seq) == {seq[i] : i \in DOMAIN seq}

FieldsOf(command) ==
    IF command = "cValidatorRegister" THEN RegisterFields ELSE ChangeProfileFields

SampleValue(field) ==
    CASE field = "node_ip" -> StrV("1.2.3.4")
      [] field = "name" -> StrV("My Validator")
      [] field = "description" -> StrV("A great validator")
      [] field \in {"delegations_disabled", "disable_delegations"} -> BoolV(TRUE)
      [] field = "commission_bps" -> IntV(1000)
      [] field = "signer" -> StrV("0xabc")
      [] field = "unjailed" -> BoolV(FALSE)
      [] OTHER -> IntV(100000000)

\* how the user writes a field: left out, null, its value, or {"Ip": value}
Hows(field) ==
    IF field = "node_ip" THEN {"omit", "null", "val", "wrapped"}
    ELSE {"omit", "null", "val"}

FieldValue(field, how) ==
    CASE how = "null" -> NoneV
      [] how = "wrapped" -> StructV([Ip |-> SampleValue(field)])
      [] OTHER -> SampleValue(field)

Supplied(c) == {k \in DOMAIN c : c[k] # "omit"}

\* the flat shape: {"node_ip": ..., "name": ..., ...}
FlatShape(c) == [k \in Supplied(c) |-> FieldValue(k, c[k])]

\* the API shape: {"register": {"profile": {...}, "unjailed": ..., "initial_wei": ...}}
NestedRegisterShape(c) ==
    LET profile == [k \in Supplied(c) \cap ProfileFields |-> FieldValue(k, c[k])]
        rest == [k \in Supplied(c) \ ProfileFields |-> FieldValue(k, c[k])]
    IN [register |-> StructV(("profile" :> StructV(profile)) @@ rest)]

\* the API shape: {"changeProfile": {...}}
NestedChangeProfileShape(c) == [changeProfile |-> StructV(FlatShape(c))]

NestedShape(command, c) ==
    IF command = "cValidatorRegister" THEN NestedRegisterShape(c)
    ELSE NestedChangeProfileShape(c)

\* dict.get(key, default)
GetOr(d, key, default) == IF key \in DOMAIN d THEN d[key] ELSE default

IsWrappedIp(v) == v.tag = "struct" /\ "Ip" \in DOMAIN v.f

UnwrapIp(v) == IF IsWrappedIp(v) THEN v.f["Ip"] ELSE v

normalize_register_keep_wrapped(params) ==
    IF "register" \in DOMAIN params
    THEN LET reg == params["register"].f
             profile == GetOr(reg, "profile", StructV(<<>>)).f
         IN [node_ip |-> Get(profile, "node_ip"),
             name |-> Get(profile, "name"),
             description |-> Get(profile, "description"),
             delegations_disabled |-> GetOr(profile, "delegations_disabled", BoolV(FALSE)),
             commission_bps |-> GetOr(profile, "commission_bps", IntV(0)),
             signer |-> Get(profile, "signer"),
             unjailed |-> GetOr(reg, "unjailed", BoolV(TRUE)),
             initial_wei |-> Get(reg, "initial_wei")]
    ELSE params

normalize_validator_register_params(params) ==
    IF "register" \in DOMAIN params
    THEN LET reg == params["register"].f
             profile == GetOr(reg, "profile", StructV(<<>>)).f
         IN [node_ip |-> UnwrapIp(Get(profile, "node_ip")),
             name |-> Get(profile, "name"),
             description |-> Get(profile, "description"),
             delegations_disabled |-> GetOr(profile, "delegations_disabled", BoolV(FALSE)),
             commission_bps |-> GetOr(profile, "commission_bps", IntV(0)),
             signer |-> Get(profile, "signer"),
             unjailed |-> GetOr(reg, "unjailed", BoolV(TRUE)),
             initial_wei |-> Get(reg, "initial_wei")]
    ELSE IF IsWrappedIp(Get(params, "node_ip"))
         THEN [params EXCEPT !["node_ip"] = params["node_ip"].f["Ip"]]
         ELSE params

normalize_validator_change_profile_params(params) ==
    IF "changeProfile" \in DOMAIN params
    THEN LET cp == params["changeProfile"].f
         IN [node_ip |-> UnwrapIp(Get(cp, "node_ip")),
             name |-> Get(cp, "name"),
             description |-> Get(cp, "description"),
             unjailed |-> GetOr(cp, "unjailed", BoolV(TRUE)),
             disable_delegations |-> Get(cp, "disable_delegations"),
             commission_bps |-> Get(cp, "commission_bps"),
             signer |-> Get(cp, "signer")]
    ELSE IF IsWrappedIp(Get(params, "node_ip"))
         THEN [params EXCEPT !["node_ip"] = params["node_ip"].f["Ip"]]
         ELSE params

Normalize(command, params) ==
    IF command = "cValidatorRegister" THEN normalize_validator_register_params(params)
    ELSE IF command = "cValidatorChangeProfile"
         THEN normalize_validator_change_profile_params(params)
    ELSE params

NoCall == [kind |-> "none", name |-> "", key |-> "", kwargs |-> <<>>]

Call(name, kwargs) == [kind |-> "call", name |-> name, key |-> "", kwargs |-> kwargs]

KeyError(key) == [kind |-> "KeyError", name |-> "", key |-> key, kwargs |-> <<>>]

\* json_params[k] for the keys in call order: the first absent key raises KeyError
FirstMissing(d, keys) ==
    LET missing == {i \in DOMAIN keys : keys[i] \notin DOMAIN d}
    IN IF missing = {} THEN ""
       ELSE keys[CHOOSE i \in missing : \A j \in missing : i <= j]

\* the try block of main: the exchange call made, or the KeyError raised building it
ExecuteCall(command, wei, params) ==
    CASE command = "cDeposit" -> Call("c_deposit", [wei |-> wei])
      [] command = "cWithdraw" -> Call("c_withdraw", [wei |-> wei])
      [] command = "cSignerJailSelf" -> Call("c_signer_jail_self", <<>>)
      [] command = "cSignerUnjailSelf" -> Call("c_signer_unjail_self", <<>>)
      [] command = "cValidatorUnregister" -> Call("c_validator_unregister", <<>>)
      [] command = "cValidatorRegister" ->
            IF FirstMissing(params, RegisterFields) # ""
            THEN KeyError(FirstMissing(params, RegisterFields))
            ELSE Call("c_validator_register",
                      [k \in Range(RegisterFields) |-> params[k]])
      [] OTHER ->
            IF "unjailed" \notin DOMAIN params THEN KeyError("unjailed")
            ELSE Call("c_validator_change_profile",
                      [k \in Range(ChangeProfileFields) |-> Get(params, k)])

(***************************************************************************)
(* Normalisation of the two shapes, applied to the same field values       *)
(***************************************************************************)
NormCommands == {"cValidatorRegister", "cValidatorChangeProfile"}

FieldChoices(command) ==
    {c \in [Range(FieldsOf(command)) -> {"omit", "null", "val", "wrapped"}] :
        \A k \in DOMAIN c : c[k] \in Hows(k)}

NoNorm == [command |-> "", fields |-> <<>>, stage |-> "off"]

NormInit ==
    /\ \E command \in NormCommands : \E c \in FieldChoices(command) :
          normIn = [command |-> command, fields |-> c, stage |-> "input"]
    /\ normFlat = <<>>
    /\ normNested = <<>>

NormalizeBoth ==
    /\ normIn.stage = "input"
    /\ normFlat' = Normalize(normIn.command, FlatShape(normIn.fields))
    /\ normNested' = Normalize(normIn.command, NestedShape(normIn.command, normIn.fields))
    /\ normIn' = [normIn EXCEPT !.stage = "done"]

(***************************************************************************)
(* cli.main                                                                *)
(***************************************************************************)
NotExited == -1
MaxOmitted == 1
SampleWei == 100000000

Commands == {"cDeposit", "cWithdraw", "cSignerJailSelf", "cSignerUnjailSelf",
             "cValidatorRegister", "cValidatorChangeProfile", "cValidatorUnregister"}

JsonAbsent == [kind |-> "absent", v |-> NoneV]
JsonEmpty == [kind |-> "empty", v |-> NoneV]
JsonInvalid == [kind |-> "invalid", v |-> NoneV]
JsonValue(v) == [kind |-> "value", v |-> v]

\* --json texts for a validator command: both shapes, up to MaxOmitted fields left out
JsonTexts(command) ==
    LET choices == {c \in [Range(FieldsOf(command)) -> {"omit", "val", "wrapped"}] :
                        /\ \A k \in DOMAIN c : c[k] \in Hows(k)
                        /\ Cardinality({k \in DOMAIN c : c[k] = "omit"}) <= MaxOmitted}
    IN {JsonAbsent, JsonEmpty, JsonInvalid, JsonValue(ListV)}
       \cup {JsonValue(StructV(FlatShape(c))) : c \in choices}
       \cup {JsonValue(StructV(NestedShape(command, c))) : c \in choices}

ArgsUniverse ==
    UNION {[command : {command},
            wei : IF command \in {"cDeposit", "cWithdraw"}
                  THEN {NoneV, IntV(SampleWei)} ELSE {NoneV},
            json : IF command \in NormCommands THEN JsonTexts(command)
                   ELSE {JsonAbsent},
            ledger_account : 0..MaxAccountIndex,
            testnet : BOOLEAN] : command \in Commands}

NoArgs == [command |-> "", wei |-> NoneV, json |-> JsonAbsent,
           ledger_account |-> 0, testnet |-> FALSE]

CliOff ==
    /\ cliPc = "off"
    /\ args = NoArgs
    /\ json_params = NoneV
    /\ stdout = <<>>
    /\ stderr = <<>>
    /\ exitCode = NotExited
    /\ invoked = <<>>
    /\ prompt = "none"
    /\ actionRaised = FALSE

NormOff ==
    /\ normIn = NoNorm
    /\ normFlat = <<>>
    /\ normNested = <<>>

CliInit ==
    /\ cliPc = "start"
    /\ args \in ArgsUniverse
    /\ json_params = NoneV
    /\ stdout = <<>>
    /\ stderr = <<>>
    /\ exitCode = NotExited
    /\ invoked = <<>>
    /\ prompt = "none"
    /\ actionRaised = FALSE

\* sys.exit(code) after the messages
Exit(code, out, err) ==
    /\ cliPc' = "exited"
    /\ exitCode' = code
    /\ stdout' = stdout \o out
    /\ stderr' = stderr \o err

\* an exception no handler of main catches: traceback on stderr, status 1
Crash == Exit(1, <<>>, <<"traceback">>)

\* lines 201-209
CliConnect ==
    /\ cliPc = "start"
    /\ LedgerSignerInit(get_ledger_account_path(args.ledger_account))
    /\ IF signerState' = "ready"
       THEN /\ cliPc' = "validate"
            /\ stdout' = stdout \o <<"connecting", "ledger_address">>
            /\ UNCHANGED <<stderr, exitCode>>
       ELSE Exit(1, <<"connecting">>, <<"error">>)
    /\ UNCHANGED <<args, json_params, invoked, prompt, actionRaised, normVars>>

\* lines 211-224
CliValidate ==
    /\ cliPc = "validate"
    /\ IF \/ args.command \in {"cDeposit", "cWithdraw"} /\ args.wei = NoneV
          \/ args.command \in NormCommands /\ args.json.kind = "absent"
       THEN Exit(1, <<"network">>, <<"error">>)
       ELSE /\ cliPc' = "parse"
            /\ stdout' = Append(stdout, "network")
            /\ UNCHANGED <<stderr, exitCode>>
    /\ UNCHANGED <<args, json_params, invoked, prompt, actionRaised, signerVars,
                   normVars>>

\* lines 226-239
CliParse ==
    /\ cliPc = "parse"
    /\ IF args.json.kind \in {"absent", "empty"}
       THEN /\ json_params' = NoneV
            /\ cliPc' = "describe"
            /\ UNCHANGED <<stdout, stderr, exitCode>>
       ELSE IF args.json.kind = "invalid"
       THEN Exit(1, <<>>, <<"error">>) /\ UNCHANGED json_params
       ELSE IF args.command \in NormCommands /\ args.json.v.tag # "struct"
       THEN Crash /\ UNCHANGED json_params
       ELSE /\ json_params' = StructV(Normalize(args.command, args.json.v.f))
            /\ cliPc' = "describe"
            /\ UNCHANGED <<stdout, stderr, exitCode>>
    /\ UNCHANGED <<args, invoked, prompt, actionRaised, signerVars, normVars>>

\* lines 241-255: json_params.get of None raises AttributeError outside any try
CliDescribe ==
    /\ cliPc = "describe"
    /\ IF args.command = "cValidatorRegister" /\ json_params.tag # "struct"
       THEN Crash
       ELSE cliPc' = "confirm" /\ UNCHANGED <<stdout, stderr, exitCode>>
    /\ UNCHANGED <<args, json_params, invoked, prompt, actionRaised, signerVars,
                   normVars>>

PromptEndings == {"returned", "interrupted", "eof"}

confirm_action_swallow(ending) ==
    /\ prompt' = ending
    /\ cliPc' = "execute"
    /\ stdout' = Append(stdout, "action")
    /\ UNCHANGED <<stderr, exitCode>>

\* lines 257-261 and confirm_action: the banner is printed, then input() blocks
confirm_action(ending) ==
    /\ prompt' = ending
    /\ IF ending = "returned"
       THEN /\ cliPc' = "execute"
            /\ stdout' = Append(stdout, "action")
            /\ UNCHANGED <<stderr, exitCode>>
       ELSE IF ending = "interrupted"
       THEN Exit(0, <<"action", "cancelled">>, <<>>)
       ELSE Exit(1, <<"action">>, <<"traceback">>)

CliConfirm ==
    /\ cliPc = "confirm"
    /\ \E ending \in PromptEndings : confirm_action(ending)
    /\ UNCHANGED <<args, json_params, invoked, actionRaised, signerVars, normVars>>

\* typed data the exchange action hands to wallet.sign_typed_data
ExchangePayloads ==
    {p \in Payloads :
        /\ p.domain.chainId = IntV(1337)
        /\ p.primaryType = "Agent"
        /\ DomainTypeName \in DOMAIN p.types
        /\ "Agent" \in DOMAIN p.types /\ "Meta" \notin DOMAIN p.types
        /\ \/ p.types["Agent"] = AgentFlat /\ p.message = MsgAgentFlat
           \/ p.types["Agent"] = AgentNested /\ p.message = MsgAgentNested}

\* lines 263-296 up to the call; lines 298-326 when building the call raises
CliExecute ==
    /\ cliPc = "execute"
    /\ IF args.command = "cValidatorChangeProfile" /\ json_params.tag # "struct"
       THEN /\ Exit(1, <<>>, <<"error">>)
            /\ UNCHANGED <<invoked, signerVars>>
       ELSE LET call == ExecuteCall(args.command, args.wei,
                                    IF json_params.tag = "struct" THEN json_params.f
                                    ELSE <<>>)
            IN IF call.kind = "KeyError"
               THEN /\ Exit(1, <<>>, <<"missing_field", "expected_format">>)
                    /\ UNCHANGED <<invoked, signerVars>>
               ELSE /\ invoked' = Append(invoked, call)
                    /\ cliPc' = "signing"
                    /\ \E p \in ExchangePayloads : CallSign(p)
                    /\ UNCHANGED <<stdout, stderr, exitCode>>
    /\ UNCHANGED <<args, json_params, prompt, actionRaised, normVars>>

CliActionDoneNoExit ==
    /\ cliPc = "signing"
    /\ pc \in {"returned", "raised"}
    /\ IF pc = "raised"
       THEN actionRaised' = TRUE /\ Exit(0, <<>>, <<"error">>)
       ELSE actionRaised' = FALSE /\ Exit(0, <<"result">>, <<>>)
    /\ UNCHANGED <<args, json_params, invoked, prompt, signerVars, normVars>>

\* line 297 when the action returns; lines 324-326 when it raises
CliActionDone ==
    /\ cliPc = "signing"
    /\ pc \in {"returned", "raised"}
    /\ IF pc = "raised"
       THEN actionRaised' = TRUE /\ Exit(1, <<>>, <<"error">>)
       ELSE \E posted \in BOOLEAN :
               IF posted
               THEN actionRaised' = FALSE /\ Exit(0, <<"result">>, <<>>)
               ELSE actionRaised' = TRUE /\ Exit(1, <<>>, <<"error">>)
    /\ UNCHANGED <<args, json_params, invoked, prompt, signerVars, normVars>>

main ==
    \/ CliConnect
    \/ CliValidate
    \/ CliParse
    \/ CliDescribe
    \/ CliConfirm
    \/ CliExecute
    \/ CliActionDone

(***************************************************************************)
(* Specifications                                                          *)
(***************************************************************************)
\* the body of LedgerSigner.sign_typed_data, one step at a time
sign_typed_data ==
    \/ SignStrip /\ UNCHANGED <<cliVars, normVars>>
    \/ SignEncode /\ UNCHANGED <<cliVars, normVars>>
    \/ SignDevice /\ UNCHANGED <<cliVars, normVars>>
    \/ SignReturn /\ UNCHANGED <<cliVars, normVars>>

\* a program that constructs a LedgerSigner and signs any sequence of payloads
SignerNext ==
    \/ \E i \in 0..MaxAccountIndex :
          LedgerSignerInit(get_ledger_account_path(i)) /\ UNCHANGED <<cliVars, normVars>>
    \/ \E p \in Payloads : CallSign(p) /\ UNCHANGED <<cliVars, normVars>>
    \/ sign_typed_data

InitSigner == SignerInit /\ CliOff /\ NormOff

SpecSigner == InitSigner /\ [][SignerNext]_vars

\* one run of the command-line tool
CliNext == main \/ sign_typed_data

InitCli == SignerInit /\ CliInit /\ NormOff

SpecCli == InitCli /\ [][CliNext]_vars

\* both normalisers on the two shapes of the same fields
NormNext == NormalizeBoth /\ UNCHANGED <<signerVars, cliVars>>

InitNorm == SignerInit /\ CliOff /\ NormInit

SpecNorm == InitNorm /\ [][NormNext]_vars

(***************************************************************************)
(* What the specification says of a payload, independently of the code     *)
(***************************************************************************)
MessageTypes(p) == [k \in DOMAIN p.types \ {DomainTypeName} |-> p.types[k]]

RECURSIVE StructMatches(_, _, _)
StructMatches(type, types, data) ==
    /\ type \in DOMAIN types
    /\ \A i \in DOMAIN types[type] :
          LET f == types[type][i]
              v == Get(data, f.name)
          IN /\ f.name \in DOMAIN data
             /\ CASE f.type = "string" -> v.tag = "str"
                  [] f.type = "uint256" -> v.tag = "int"
                  [] OTHER -> /\ f.type \in DOMAIN types
                              /\ v.tag = "struct"
                              /\ StructMatches(f.type, types, v.f)

NoPrimaryEntry(p) == p.primaryType \notin DOMAIN MessageTypes(p)

OmitsReachableType(p) ==
    /\ ~NoPrimaryEntry(p)
    /\ ~(find_type_dependencies({p.primaryType}, MessageTypes(p))
            \subseteq DOMAIN MessageTypes(p))

FieldMismatch(p) ==
    /\ ~NoPrimaryEntry(p)
    /\ ~OmitsReachableType(p)
    /\ ~StructMatches(p.primaryType, MessageTypes(p), p.message)

Malformed(p) == NoPrimaryEntry(p) \/ OmitsReachableType(p) \/ FieldMismatch(p)

\* hashStruct(message, primaryType) and hashStruct(domain, "EIP712Domain")
DeclaredMessageHash(p) == hash_struct(p.primaryType, MessageTypes(p), p.message).h
DeclaredDomainHash(p) == hash_domain(p.domain).h

OtherAddress == [addr |-> "0x", key |-> NoPath]

\* ecrecover: the signing key's address when (r, s, v) is the device's signature
\* of exactly this digest, some unrelated address otherwise
Recover(dh, mh, r, s, v) ==
    IF /\ from_hex(r) = signed.r /\ from_hex(s) = signed.s /\ v = signed.v
       /\ dh = signed.dh /\ mh = signed.mh
    THEN AddressOf(signed.path)
    ELSE OtherAddress

InCall == pc # "idle"

(***************************************************************************)
(* Claims                                                                  *)
(***************************************************************************)

\* C1: a call whose payload is malformed (types omits a struct type reachable
\* from the primary type, has no entry for primaryType, or a message field
\* mismatches its declared type) fails with the malformed-data error (the
\* encoder's ValueError is taken to be it) and sends nothing to the device.
C1_MalformedNeverReachesDevice ==
    (InCall /\ Malformed(typed_data)) =>
        /\ requests = <<>>
        /\ pc \notin {"hashed", "signed", "returned"}
        /\ (pc = "raised" => outcome.err = "ValueError")

\* C2: the error the caller sees when the device reported that the user
\* declined is never the error it sees when the device is disconnected, locked
\* or has the wrong app open.
C2_RejectionDistinctFromUnavailable ==
    /\ surfaced.declined \in {"none", LedgerCancel}
    /\ surfaced.unavailable \in {"none"} \cup DeviceUnavailableErrors
    /\ (surfaced.declined # "none" /\ surfaced.unavailable # "none")
          => surfaced.declined # surfaced.unavailable

C2_Witness ==
    /\ surfaced.declined = LedgerCancel
    /\ surfaced.unavailable = "LedgerLocked"
    /\ pc = "raised"

\* C3: a call sends at most one signing request, none before the hash pair is
\* computed; a call that raised returned no signature, and sent no request at
\* all when it was the hashing step that failed.
C3_AtMostOneRequestPerCall ==
    /\ Len(requests) <= 1
    /\ pc \in {"idle", "called", "stripped", "hashed"} => requests = <<>>
    /\ pc \in {"signed", "returned"} => Len(requests) = 1
    /\ pc = "raised" => /\ outcome.kind = "error"
                        /\ outcome.r = <<>> /\ outcome.s = <<>>
                        /\ signed = NoSigned
                        /\ (outcome.err \notin DeviceErrors => requests = <<>>)
    /\ pc = "returned" => outcome.kind = "sig"

C3_Witness ==
    /\ pc = "raised"
    /\ Len(requests) = 1
    /\ outcome.err = LedgerCancel

\* C4: the message hash sent to the device is the struct hash of `message`
\* under the type the payload's primaryType names, and the domain hash is the
\* struct hash of `domain` under EIP712Domain, whenever primaryType names a
\* type of `types`.
C4_HashedUnderDeclaredPrimaryType ==
    \A i \in DOMAIN requests :
        ~NoPrimaryEntry(typed_data) =>
            /\ requests[i].message_hash.t = typed_data.primaryType
            /\ requests[i].message_hash = DeclaredMessageHash(typed_data)
            /\ requests[i].domain_hash = DeclaredDomainHash(typed_data)

\* C5: the set of types handed to the message-hashing routine never has the
\* key "EIP712Domain" and has every other entry of `types`, unchanged, and
\* nothing else.
C5_DomainTypeExcluded ==
    pc \in {"stripped", "hashed", "signed", "returned", "raised"} =>
        /\ DomainTypeName \notin DOMAIN signing_types
        /\ DOMAIN signing_types = DOMAIN typed_data.types \ {DomainTypeName}
        /\ \A k \in DOMAIN signing_types : signing_types[k] = typed_data.types[k]

C5_Witness ==
    /\ pc = "hashed"
    /\ DomainTypeName \in DOMAIN typed_data.types
    /\ DOMAIN signing_types = {"Agent", "Meta"}

\* C6: for a valid payload, the address recovered from the independently
\* recomputed (domainHash, messageHash) and the returned (r, s, v) is the
\* address the signer reports.
C6_RoundTripRecoversAddress ==
    (pc = "returned" /\ ~Malformed(typed_data)) =>
        Recover(DeclaredDomainHash(typed_data), DeclaredMessageHash(typed_data),
                outcome.r, outcome.s, outcome.v) = account

\* C9: every signing request carries the derivation path the account was
\* opened with at construction (the account whose address the signer reports)
\* and the hash pair computed for the call's payload; a signer whose
\* construction failed sends none.
C9_RequestCarriesOpenedPathAndHashes ==
    /\ \A i \in DOMAIN requests :
          LET signable == encode_typed_data(typed_data.domain,
                                            MessageTypes(typed_data),
                                            typed_data.message)
          IN /\ requests[i].sender_path = openedPath
             /\ AddressOf(requests[i].sender_path) = account
             /\ signable.ok
             /\ requests[i].domain_hash = signable.header
             /\ requests[i].message_hash = signable.body
    /\ signerState # "ready" => requests = <<>> /\ pc = "idle"

C9_Witness ==
    /\ Len(requests) = 1
    /\ pc = "signed"
    /\ surfaced.declined # "none"
    /\ openedPath = get_ledger_account_path(1)

\* C7: no exchange action is invoked, and no signing request sent, unless
\* confirm_action printed the action and its prompt returned; when the prompt
\* is interrupted or cannot be read the process has ended with nothing invoked.
C7_NoActionBeforeConfirmation ==
    /\ (invoked # <<>> \/ requests # <<>> \/ pc # "idle") =>
          /\ prompt = "returned"
          /\ "action" \in Range(stdout)
    /\ prompt \in {"interrupted", "eof"} =>
          /\ cliPc = "exited"
          /\ invoked = <<>>
          /\ requests = <<>>
          /\ pc = "idle"
    /\ Len(invoked) <= 1

C7_Witness ==
    /\ prompt = "returned"
    /\ Len(invoked) = 1
    /\ invoked[1].name = "c_validator_register"
    /\ Len(requests) = 1

\* C8: when constructing the signer failed, or the exchange action raised, the
\* process has ended with status 1, something was written to stderr, and no
\* result was printed to stdout.
C8_SignerFailureExitsOne ==
    /\ signerState = "failed" => cliPc = "exited"
    /\ (cliPc = "exited" /\ (signerState = "failed" \/ actionRaised \/ pc = "raised")) =>
          /\ exitCode = 1
          /\ stderr # <<>>
          /\ "result" \notin Range(stdout)

C8_Witness ==
    /\ cliPc = "exited"
    /\ pc = "raised"
    /\ outcome.err = LedgerCancel

\* C10 as stated: whatever fields the user supplies, the flat and the nested
\* shape normalize to the same record, node_ip is not left wrapped, and the
\* call built from it (or the KeyError) is the same.
NormCall(params) == ExecuteCall(normIn.command, NoneV, params)

C10_ShapesNormalizeAlike ==
    normIn.stage = "done" =>
        /\ normFlat = normNested
        /\ ~IsWrappedIp(Get(normNested, "node_ip"))
        /\ ~IsWrappedIp(Get(normFlat, "node_ip"))
        /\ NormCall(normFlat) = NormCall(normNested)

\* C10 amended: when every field of the command is supplied (a value or
\* null, node_ip plain or as {"Ip": value}) the two shapes normalize to the same
\* record, node_ip unwrapped, and the same call is built; for
\* cValidatorChangeProfile the call built is also the same whenever "unjailed"
\* is supplied, whatever else is left out.
C10_FullShapesNormalizeAlike ==
    normIn.stage = "done" =>
        /\ ~IsWrappedIp(Get(normNested, "node_ip"))
        /\ ~IsWrappedIp(Get(normFlat, "node_ip"))
        /\ Supplied(normIn.fields) = DOMAIN normIn.fields =>
              /\ normFlat = normNested
              /\ NormCall(normFlat) = NormCall(normNested)
              /\ NormCall(normFlat).kind = "call"
        /\ (normIn.command = "cValidatorChangeProfile"
              /\ normIn.fields["unjailed"] # "omit") =>
              NormCall(normFlat) = NormCall(normNested)

C10_Witness ==
    /\ normIn.stage = "done"
    /\ normIn.command = "cValidatorRegister"
    /\ Supplied(normIn.fields) = DOMAIN normIn.fields
    /\ normIn.fields["node_ip"] = "wrapped"
    /\ normIn.fields["name"] = "null"
    /\ normNested["node_ip"] = StrV("1.2.3.4")

====
